---- MODULE Spec2Model ----
(***************************************************************************)
(* ai-sandbox-landlock: model of src/src/main.rs.                          *)
(*                                                                         *)
(* main() parses its arguments, optionally loads a profile, and then       *)
(* either prints (generate-profile, check, print-config, print-ruleset,    *)
(* dry-run) or builds a Landlock ruleset, restricts itself and runs the    *)
(* target command.  The landlock crate is an external library: its         *)
(* operations are modelled at their call sites by what the crate does      *)
(* (best-effort compatibility, empty access sets rejected,                 *)
(* path_beneath_rules dropping paths it cannot open).                      *)
(***************************************************************************)
EXTENDS Integers, Sequences, FiniteSets, TLC

(***************************************************************************)
(* Bounds of the model.                                                    *)
(***************************************************************************)
\* Landlock ABI revisions of the running kernel: 0 (unsupported) .. MaxKernelABI.
MaxKernelABI == 3
\* Explicit exit codes of the child: 0 .. MaxExitCode.
MaxExitCode == 2
\* Config document versions tried: absent, and 0 .. MaxVersion.
MaxVersion == 2
\* Groups per profile in the compilation specification.
MaxGroups == 2

(***************************************************************************)
(* AccessFs: the capability domain.                                        *)
(***************************************************************************)
\* The seven capabilities a Permissions / ControlAccess record can name.
SevenCaps ==
    {"ReadFile", "ReadDir", "Execute", "WriteFile", "RemoveFile", "RemoveDir", "Truncate"}

\* The rights ABI V1 knows besides those of SevenCaps.
MakeCaps ==
    {"MakeChar", "MakeDir", "MakeReg", "MakeSock", "MakeFifo", "MakeBlock", "MakeSym"}

\* AccessFs::from_all(abi): every right the ABI revision can represent.
\* V1 has thirteen rights, V2 adds Refer, V3 adds Truncate.
FromAll(abi) ==
    IF abi <= 0 THEN {}
    ELSE ((SevenCaps \ {"Truncate"}) \cup MakeCaps)
         \cup (IF abi >= 2 THEN {"Refer"} ELSE {})
         \cup (IF abi >= 3 THEN {"Truncate"} ELSE {})

\* AccessFs::from_read(abi): the read-like rights.
FromRead(abi) ==
    IF abi <= 0 THEN {} ELSE {"Execute", "ReadFile", "ReadDir"}

\* The rights that make sense on a regular file (the crate's ACCESS_FILE).
AccessFile == {"Execute", "WriteFile", "ReadFile", "Truncate"}

(***************************************************************************)
(* Permissions / ControlAccess records: each field is an Option<bool>.     *)
(***************************************************************************)
Fields ==
    {"read_file", "read_dir", "execute", "write_file", "remove_file", "remove_dir", "truncate"}

OptBool == {"absent", "true", "false"}

\* Option<bool>::unwrap_or(false)
UnwrapOrFalse(v) == v = "true"

\* A record whose fields in t are Some(true), in f are Some(false), others None.
Perm(t, f) ==
    [x \in Fields |-> IF x \in t THEN "true" ELSE IF x \in f THEN "false" ELSE "absent"]

access_from_permissions(perms) ==
    (IF UnwrapOrFalse(perms.read_file) THEN {"ReadFile"} ELSE {})
    \cup (IF UnwrapOrFalse(perms.read_dir) THEN {"ReadDir"} ELSE {})
    \cup (IF UnwrapOrFalse(perms.execute) THEN {"Execute"} ELSE {})
    \cup (IF UnwrapOrFalse(perms.write_file) THEN {"WriteFile"} ELSE {})
    \cup (IF UnwrapOrFalse(perms.remove_file) THEN {"RemoveFile"} ELSE {})
    \cup (IF UnwrapOrFalse(perms.remove_dir) THEN {"RemoveDir"} ELSE {})
    \cup (IF UnwrapOrFalse(perms.truncate) THEN {"Truncate"} ELSE {})

\* access_from_control with a copy slip: remove_dir inserts RemoveFile.
access_from_control_slip(ctrl) ==
    (IF UnwrapOrFalse(ctrl.read_file) THEN {"ReadFile"} ELSE {})
    \cup (IF UnwrapOrFalse(ctrl.read_dir) THEN {"ReadDir"} ELSE {})
    \cup (IF UnwrapOrFalse(ctrl.execute) THEN {"Execute"} ELSE {})
    \cup (IF UnwrapOrFalse(ctrl.write_file) THEN {"WriteFile"} ELSE {})
    \cup (IF UnwrapOrFalse(ctrl.remove_file) THEN {"RemoveFile"} ELSE {})
    \cup (IF UnwrapOrFalse(ctrl.remove_dir) THEN {"RemoveFile"} ELSE {})
    \cup (IF UnwrapOrFalse(ctrl.truncate) THEN {"Truncate"} ELSE {})

access_from_control(ctrl) ==
    (IF UnwrapOrFalse(ctrl.read_file) THEN {"ReadFile"} ELSE {})
    \cup (IF UnwrapOrFalse(ctrl.read_dir) THEN {"ReadDir"} ELSE {})
    \cup (IF UnwrapOrFalse(ctrl.execute) THEN {"Execute"} ELSE {})
    \cup (IF UnwrapOrFalse(ctrl.write_file) THEN {"WriteFile"} ELSE {})
    \cup (IF UnwrapOrFalse(ctrl.remove_file) THEN {"RemoveFile"} ELSE {})
    \cup (IF UnwrapOrFalse(ctrl.remove_dir) THEN {"RemoveDir"} ELSE {})
    \cup (IF UnwrapOrFalse(ctrl.truncate) THEN {"Truncate"} ELSE {})

(***************************************************************************)
(* Paths and the file system the launcher runs on.                         *)
(***************************************************************************)
\* Marker for an absent Option value.
None == "<none>"

\* Path strings that occur in arguments and profiles.
HomeRelPaths == {"~/proj", "~/gone"}
PathStrings == {"/usr", "/bin/sh", "/nofile"} \cup HomeRelPaths

\* p.strip_prefix("~/") pushed onto $HOME.
JoinHome(p) ==
    CASE p = "~/proj" -> "/home/u/proj"
      [] p = "~/gone" -> "/home/u/gone"
      [] OTHER -> p

\* normalize_path: home-relative expansion only, no other canonicalisation;
\* fails when $HOME is needed and unset.
normalize_path(p, home_set) ==
    IF p \in HomeRelPaths
    THEN IF home_set THEN [ok |-> TRUE, path |-> JoinHome(p)]
                     ELSE [ok |-> FALSE, path |-> None]
    ELSE [ok |-> TRUE, path |-> p]

\* What a normalized path is on disk.
PathKind(p) ==
    CASE p \in {"/usr", "/home/u/proj"} -> "dir"
      [] p = "/bin/sh" -> "file"
      [] OTHER -> "missing"

(***************************************************************************)
(* The landlock crate, as main.rs uses it.  Ruleset::default() is          *)
(* best-effort: rights the running kernel does not know are dropped, an    *)
(* empty access set is an error, and on a kernel without Landlock the      *)
(* ruleset is a dummy whose operations succeed without any effect.         *)
(***************************************************************************)
\* Ruleset::default() before handle_access.
NoRuleset ==
    [state |-> "Unrestricted", requested |-> {}, actual |-> {}, real |-> FALSE, rules |-> <<>>]

\* Ruleset::default().handle_access(handled): an empty set is rejected
\* (AccessError::Empty); otherwise the rights are cut to the kernel's ABI.
HandleAccess(handled, abi) ==
    [ok |-> handled # {},
     requested |-> handled,
     actual |-> handled \cap FromAll(abi)]

\* .create(): a system call when some handled right survived, which may fail
\* (sys_ok); a dummy ruleset otherwise.
Create(ha, sys_ok) ==
    [ok |-> ha.ok /\ (ha.actual = {} \/ sys_ok),
     ruleset |-> [state |-> "RulesetCreated", requested |-> ha.requested,
                  actual |-> ha.actual, real |-> ha.actual # {}, rules |-> <<>>]]

\* path_beneath_rules(paths, access): one rule per path that can be opened;
\* a path that cannot be opened is left out without an error, and on a
\* regular file the access is cut to the rights a file can have.
path_beneath_rules(paths, access) ==
    LET opened == SelectSeq(paths, LAMBDA p : PathKind(p) # "missing")
    IN [i \in 1..Len(opened) |->
            [path |-> opened[i],
             access |-> IF PathKind(opened[i]) = "file"
                        THEN access \cap AccessFile ELSE access]]

\* The rule as the kernel receives it: its access cut to the kernel's ABI.
CompatRule(rule, abi) == [path |-> rule.path, access |-> rule.access \cap FromAll(abi)]

\* created.add_rules(rules): each rule must be consistent with the requested
\* handled set and non-empty; a rule with nothing left after the ABI cut is
\* dropped; the others are added by a system call, which may fail (sys_ok).
AddRules(rs, rules, abi, sys_ok) ==
    LET idx == 1..Len(rules)
        bad == \E i \in idx : rules[i].access = {} \/ ~(rules[i].access \subseteq rs.requested)
        kept == SelectSeq(rules, LAMBDA r : rs.real /\ (r.access \cap FromAll(abi)) # {})
        added == [i \in 1..Len(kept) |-> CompatRule(kept[i], abi)]
        ok == ~bad /\ (Len(kept) = 0 \/ sys_ok)
    IN [ok |-> ok,
        ruleset |-> IF ok THEN [rs EXCEPT !.rules = rs.rules \o added] ELSE rs]

\* created.restrict_self(): no_new_privs and the self-restriction call, which
\* may fail (sys_ok); on a dummy ruleset nothing is enforced.
RestrictSelf(rs, sys_ok) ==
    [ok |-> sys_ok,
     ruleset |-> IF sys_ok THEN [rs EXCEPT !.state = "Restricted"] ELSE rs]

(***************************************************************************)
(* supported_access / access_names / unsupported_names                     *)
(***************************************************************************)
\* The probe of supported_access for one ABI revision: build, do not apply.
ProbeOk(abi, kabi, sys_ok) == Create(HandleAccess(FromAll(abi), kabi), sys_ok).ok

\* supported_access(): V2 if its probe succeeds, else V1 if its probe
\* succeeds, else V1 as the default.  sys2 / sys1: whether the probe's
\* system call succeeds.
supported_access(kabi, sys2, sys1) ==
    IF ProbeOk(2, kabi, sys2) THEN FromAll(2)
    ELSE IF ProbeOk(1, kabi, sys1) THEN FromAll(1)
    ELSE FromAll(1)

\* The order in which access_names and unsupported_names list capabilities.
CapOrder ==
    <<"ReadFile", "ReadDir", "Execute", "WriteFile", "RemoveFile", "RemoveDir", "Truncate">>

access_names(set) == SelectSeq(CapOrder, LAMBDA c : c \in set)

unsupported_names(requested, sup) ==
    SelectSeq(CapOrder, LAMBDA c : c \in requested /\ c \notin sup)

(***************************************************************************)
(* Configuration documents (the YAML structures of main.rs).               *)
(***************************************************************************)
NoPerm == Perm({}, {})
AllFalse == Perm({}, Fields)
ReadOnlyPerm == Perm({"read_file", "read_dir"}, {})
ReadExecPerm == Perm({"read_file", "read_dir", "execute"}, Fields)
WritePerm == Perm({"read_file", "read_dir", "write_file", "remove_file"}, Fields)
TruncPerm == Perm({"read_file", "write_file", "truncate"}, {"execute"})

\* The records profiles are built from.
PermChoices == {NoPerm, AllFalse, ReadOnlyPerm, ReadExecPerm, WritePerm, TruncPerm}

Group(name, paths, perms) == [name |-> name, paths |-> paths, permissions |-> perms]

Cmd(wd, env) == [binary |-> "/bin/true", args |-> <<>>, working_dir |-> wd, env |-> env]

MkProfile(groups, ctrl, cmd) ==
    [access_roots |-> groups, control_access |-> ctrl, command |-> cmd]

\* The profiles the launcher is run with.  access_roots is a HashMap: the
\* sequence is its iteration order, the same in every loop over one map.
Profiles ==
    { \* one read-only group, nothing else handled
      MkProfile(<<Group("projects", <<"/usr">>, ReadOnlyPerm)>>, NoPerm, Cmd(None, <<>>)),
      \* a profile asking for Truncate, with home-relative path, cwd and env
      MkProfile(<<Group("projects", <<"~/proj">>, TruncPerm)>>, Perm({"execute"}, {}),
                Cmd("~/proj", <<"~/proj", "plain">>)),
      \* nothing at all
      MkProfile(<<>>, NoPerm, Cmd(None, <<>>)),
      MkProfile(<<>>, AllFalse, Cmd("/usr", <<>>)),
      \* handled rights but no group
      MkProfile(<<>>, ReadOnlyPerm, Cmd(None, <<>>)),
      \* a path that does not exist beside one that does
      MkProfile(<<Group("system", <<"/usr", "/nofile">>, ReadExecPerm)>>, ReadExecPerm,
                Cmd("/usr", <<>>)),
      MkProfile(<<Group("projects", <<"~/gone">>, WritePerm)>>, NoPerm, Cmd(None, <<>>)),
      \* a working directory that does not exist / is a file
      MkProfile(<<Group("projects", <<"/usr">>, WritePerm)>>, NoPerm, Cmd("/nofile", <<>>)),
      MkProfile(<<Group("system", <<"/usr">>, ReadExecPerm)>>, NoPerm, Cmd("/bin/sh", <<>>)),
      \* a group that grants nothing
      MkProfile(<<Group("cache", <<"/usr">>, AllFalse)>>, ReadOnlyPerm, Cmd(None, <<>>)),
      \* one path in two groups with different rights
      MkProfile(<<Group("projects", <<"/usr">>, ReadOnlyPerm),
                  Group("system", <<"/usr">>, WritePerm)>>, NoPerm, Cmd(None, <<>>)),
      MkProfile(<<Group("system", <<"/usr", "~/proj">>, ReadExecPerm),
                  Group("projects", <<"~/proj">>, TruncPerm)>>, ReadOnlyPerm,
                Cmd("~/proj", <<>>)),
      \* a rule on a regular file
      MkProfile(<<Group("system", <<"/bin/sh">>, ReadExecPerm)>>, NoPerm, Cmd(None, <<>>)),
      MkProfile(<<Group("system", <<"/bin/sh", "/usr">>, Perm({"read_dir"}, {}))>>, NoPerm,
                Cmd(None, <<>>)) }

\* Option<u32>: <<>> is None, <<v>> is Some(v).
Versions == {<<>>} \cup {<<v>> : v \in 0..MaxVersion}

\* The documents --config may name: one profile, called "minimal".
Configs ==
    {[version |-> <<1>>, profiles |-> [n \in {"minimal"} |-> p]] : p \in Profiles}
    \cup {[version |-> v,
           profiles |-> [n \in {"minimal"} |->
               MkProfile(<<Group("projects", <<"/usr">>, ReadOnlyPerm)>>, NoPerm,
                         Cmd(None, <<>>))]] : v \in Versions}

\* load_config without the version check.
load_config_unchecked(cfg) == [ok |-> TRUE, cfg |-> cfg]

\* load_config: the version check (a document without a version passes).
load_config(cfg) ==
    IF cfg.version # <<>> /\ cfg.version[1] # 1
    THEN [ok |-> FALSE, cfg |-> cfg]
    ELSE [ok |-> TRUE, cfg |-> cfg]

(***************************************************************************)
(* The state of one run of main.                                           *)
(***************************************************************************)
VARIABLES
    args,                \* Args, as parsed from the command line
    kernel_abi,          \* the Landlock ABI of the running kernel (0: none)
    home_set,            \* whether $HOME is set
    config_version,      \* <<>>, or <<cfg.version>> of the document load_config decoded
    pc,                  \* main's position
    selected_profile,    \* Option<Profile>: <<>> or <<profile>>
    effective_cmd,       \* the command vector
    effective_root,      \* Option<String>
    effective_read_only,
    ll_checked,          \* perform_landlock_check has been called by the run path
    ll_available,
    warned,              \* "Landlock not available; proceeding without sandbox."
    handled,             \* the mask given to handle_access
    ruleset,             \* the ruleset being built / enforced
    group_idx,           \* next group of the add_rules loop
    calls,               \* Enforcer calls in order: create, add_rules, restrict_self
    probed,              \* a construct-without-apply probe has succeeded
    printed,             \* what the print modes wrote: <<>> or <<report>>
    wd_checked,          \* the working-directory check of run_command has passed
    spawned,             \* the target command has been spawned
    child,               \* the child: kind None, "spawn_failed", "exit" or "signal"; its code
    outcome,             \* "running", "ok", "error" or "exit"
    exit_code            \* the exit status of main (-1 while running)

vars ==
    <<args, kernel_abi, home_set, config_version, pc, selected_profile, effective_cmd, effective_root,
      effective_read_only, ll_checked, ll_available, warned, handled, ruleset, group_idx,
      calls, probed, printed, wd_checked, spawned, child, outcome, exit_code>>

\* The command lines main is started with.
ArgsSet ==
    { a \in [generate_profile : BOOLEAN, check : BOOLEAN, print_config : BOOLEAN,
             print_ruleset : BOOLEAN, dry_run : BOOLEAN, require_landlock : BOOLEAN,
             read_only : BOOLEAN, config : BOOLEAN,
             profile : {None, "minimal", "other"},
             root : {None, "/usr", "/nofile", "~/proj"},
             command : {<<>>, <<"cmd">>}] :
        /\ (~a.config => a.profile = None)
        /\ (a.config => a.root \in {None, "/usr"}) }

\* The child before it has run.
NoChild == [kind |-> None, code |-> -1]

Init ==
    /\ args \in ArgsSet
    /\ kernel_abi \in 0..MaxKernelABI
    /\ home_set \in BOOLEAN
    /\ config_version = <<>>
    /\ pc = "start"
    /\ selected_profile = <<>>
    /\ effective_cmd = <<>>
    /\ effective_root = None
    /\ effective_read_only = FALSE
    /\ ll_checked = FALSE
    /\ ll_available = FALSE
    /\ warned = FALSE
    /\ handled = {}
    /\ ruleset = NoRuleset
    /\ group_idx = 0
    /\ calls = <<>>
    /\ probed = FALSE
    /\ printed = <<>>
    /\ wd_checked = FALSE
    /\ spawned = FALSE
    /\ child = NoChild
    /\ outcome = "running"
    /\ exit_code = -1

\* main returns Err(..): the error is printed and the process exits non-zero.
Fail ==
    /\ pc' = "done"
    /\ outcome' = "error"
    /\ exit_code' = 1

\* main returns Ok(()).
ReturnOk ==
    /\ pc' = "done"
    /\ outcome' = "ok"
    /\ exit_code' = 0

envVars == <<args, kernel_abi, home_set>>
selVars == <<selected_profile, effective_cmd, effective_root, effective_read_only>>
availVars == <<ll_checked, ll_available, warned>>
enfVars == <<handled, ruleset, group_idx, calls>>
runVars == <<wd_checked, spawned, child>>

(***************************************************************************)
(* perform_landlock_check                                                  *)
(***************************************************************************)
\* /proc/sys/kernel/osrelease as its dot-separated leading numbers
\* (<<>>: unreadable, "unknown").
OsReleases == {<<>>, <<4, 19>>, <<5, 12>>, <<5, 13>>, <<6, 8>>}

parse_kernel_version_ge(parts, want_major, want_minor) ==
    IF Len(parts) < 2 THEN FALSE
    ELSE (parts[1] > want_major) \/ (parts[1] = want_major /\ parts[2] >= want_minor)

\* Ok exactly when the release is >= 5.13 and the LSM list names landlock;
\* no ruleset is built.
perform_landlock_check(osrelease, lsm_has_landlock) ==
    LET version_ok == parse_kernel_version_ge(osrelease, 5, 13)
        lsm_ok == lsm_has_landlock
    IN version_ok /\ lsm_ok

(***************************************************************************)
(* main, up to the mode dispatch                                           *)
(***************************************************************************)
\* --generate-profile: detect the root, write the YAML, return.
GenerateProfile ==
    /\ pc = "start"
    /\ args.generate_profile
    /\ \E io_ok \in BOOLEAN :
          LET root == IF args.root # None THEN normalize_path(args.root, home_set)
                      ELSE [ok |-> TRUE, path |-> "/cwd"]
          IN IF root.ok /\ io_ok THEN ReturnOk ELSE Fail
    /\ UNCHANGED <<envVars, config_version, selVars, availVars, enfVars, runVars, probed, printed>>

\* --check: report availability and exit.
Check ==
    /\ pc = "start"
    /\ ~args.generate_profile
    /\ args.check
    /\ \E osrelease \in OsReleases, lsm \in BOOLEAN :
          IF perform_landlock_check(osrelease, lsm)
          THEN ReturnOk
          ELSE pc' = "done" /\ outcome' = "exit" /\ exit_code' = 1
    /\ UNCHANGED <<envVars, config_version, selVars, availVars, enfVars, runVars, probed, printed>>

\* profile.access_roots.get("projects")
GetGroup(profile, name) ==
    SelectSeq(profile.access_roots, LAMBDA g : g.name = name)

\* Lines 127-132: the command of the profile unless the CLI tail gives one.
EffectiveCmd(profile, a) ==
    IF a.command = <<>>
    THEN <<profile.command.binary>> \o profile.command.args
    ELSE a.command

\* Lines 137-139: whether access_roots.projects has a first path.
HasFirstProject(profile) ==
    LET projects == GetGroup(profile, "projects")
    IN projects # <<>> /\ projects[1].paths # <<>>

\* Lines 137-139: the first path of the projects group, normalized.
FirstProject(profile, home) ==
    IF HasFirstProject(profile)
    THEN normalize_path(GetGroup(profile, "projects")[1].paths[1], home)
    ELSE [ok |-> TRUE, path |-> None]

\* Lines 139, 106: the root taken from the profile, else from --root.
EffectiveRoot(profile, a, home) ==
    IF HasFirstProject(profile) THEN FirstProject(profile, home).path ELSE a.root

\* Lines 141-143, 107: read-only unless the projects group may write, remove
\* or truncate.
EffectiveReadOnly(profile, a) ==
    IF HasFirstProject(profile)
    THEN LET perms == GetGroup(profile, "projects")[1].permissions
         IN /\ ~UnwrapOrFalse(perms.write_file)
            /\ ~UnwrapOrFalse(perms.remove_file)
            /\ ~UnwrapOrFalse(perms.truncate)
    ELSE a.read_only

\* --config given: load the document, select the profile, derive the
\* effective command, root and read-only flag.
LoadConfig ==
    /\ pc = "start"
    /\ ~args.generate_profile
    /\ ~args.check
    /\ args.config
    /\ \E cfg \in Configs, io_ok \in BOOLEAN :
          LET loaded == load_config(cfg) IN
          /\ config_version' = IF args.profile # None /\ io_ok THEN <<cfg.version>> ELSE <<>>
          /\ IF args.profile = None \/ ~io_ok \/ ~loaded.ok
                \/ args.profile \notin DOMAIN loaded.cfg.profiles
             THEN Fail /\ UNCHANGED selVars
             ELSE LET profile == loaded.cfg.profiles[args.profile]
                  IN IF ~FirstProject(profile, home_set).ok
                     THEN Fail /\ UNCHANGED selVars
                     ELSE /\ selected_profile' = <<profile>>
                          /\ effective_cmd' = EffectiveCmd(profile, args)
                          /\ effective_root' = EffectiveRoot(profile, args, home_set)
                          /\ effective_read_only' = EffectiveReadOnly(profile, args)
                          /\ pc' = "modes"
                          /\ UNCHANGED <<outcome, exit_code>>
    /\ UNCHANGED <<envVars, availVars, enfVars, runVars, probed, printed>>

\* No --config: everything comes from the command line.
NoConfig ==
    /\ pc = "start"
    /\ ~args.generate_profile
    /\ ~args.check
    /\ ~args.config
    /\ effective_cmd' = args.command
    /\ effective_root' = args.root
    /\ effective_read_only' = args.read_only
    /\ pc' = "modes"
    /\ UNCHANGED <<envVars, config_version, selected_profile, availVars, enfVars, runVars, probed, printed,
                   outcome, exit_code>>

(***************************************************************************)
(* Policy compilation and the print modes                                  *)
(***************************************************************************)
\* The set of the values of a sequence.
Range(seq) == {seq[i] : i \in 1..Len(seq)}

\* print_ruleset_profile: handled = control_access plus every group.
PrintHandled(profile) ==
    access_from_control(profile.control_access)
    \cup UNION {access_from_permissions(g.permissions) : g \in Range(profile.access_roots)}

\* SetupHandled with line 378 (the control_access insert) left out.
SetupHandledNoControl(profile) ==
    UNION {access_from_permissions(g.permissions) : g \in Range(profile.access_roots)}

\* setup_landlock_profile: handled = control_access plus every group.
SetupHandled(profile) ==
    access_from_control(profile.control_access)
    \cup UNION {access_from_permissions(g.permissions) : g \in Range(profile.access_roots)}

\* The paths of a group, normalized in order; ok is false when one fails.
NormalizePaths(paths, home) ==
    [ok |-> \A i \in 1..Len(paths) : normalize_path(paths[i], home).ok,
     paths |-> [i \in 1..Len(paths) |-> normalize_path(paths[i], home).path]]

\* print_ruleset_profile: the report, and whether printing got to its end.
print_ruleset_profile(profile, home, sup) ==
    LET hd == PrintHandled(profile)
        groups == profile.access_roots
    IN [ok |-> \A i \in 1..Len(groups) : NormalizePaths(groups[i].paths, home).ok,
        report |->
           [mode |-> "profile",
            handled |-> access_names(hd),
            ignored |-> unsupported_names(hd, sup),
            groups |-> [i \in 1..Len(groups) |->
                LET allowed == access_from_permissions(groups[i].permissions)
                IN [name |-> groups[i].name,
                    allowed |-> access_names(allowed),
                    ignored |-> unsupported_names(allowed, sup),
                    paths |-> NormalizePaths(groups[i].paths, home).paths]]]]

\* print_ruleset_root: the allowed set is built from a Permissions literal.
PrintRootAllowed(read_only) ==
    IF read_only
    THEN access_from_permissions(Perm({"read_file", "read_dir", "execute"}, {}))
    ELSE access_from_permissions(Perm(Fields, {}))

print_ruleset_root(root, read_only, home, sup) ==
    LET normalized == normalize_path(root, home)
        allowed == PrintRootAllowed(read_only)
    IN [ok |-> normalized.ok,
        report |->
           [mode |-> "root",
            handled |-> access_names(allowed),
            ignored |-> unsupported_names(allowed, sup),
            groups |-> <<[name |-> "root",
                          allowed |-> access_names(allowed),
                          ignored |-> unsupported_names(allowed, sup),
                          paths |-> <<normalized.path>>]>>]]

\* --print-config: print the selected profile (or root) and return.
PrintConfig ==
    /\ pc = "modes"
    /\ args.print_config
    /\ ReturnOk
    /\ UNCHANGED <<envVars, config_version, selVars, availVars, enfVars, runVars, probed, printed>>

\* --print-ruleset / --dry-run: compile and print, never enforce.  The
\* probes of supported_access are the only rulesets built here.
PrintRuleset ==
    /\ pc = "modes"
    /\ ~args.print_config
    /\ args.print_ruleset \/ args.dry_run
    /\ \E sys2 \in BOOLEAN, sys1 \in BOOLEAN :
          LET sup == supported_access(kernel_abi, sys2, sys1)
              res == IF selected_profile # <<>>
                     THEN print_ruleset_profile(selected_profile[1], home_set, sup)
                     ELSE print_ruleset_root(effective_root, effective_read_only,
                                             home_set, sup)
          IN IF selected_profile = <<>> /\ effective_root = None
             THEN Fail /\ UNCHANGED <<probed, printed>>
             ELSE IF ~res.ok
             THEN Fail /\ UNCHANGED <<probed, printed>>
             ELSE /\ ReturnOk
                  /\ printed' = <<res.report>>
                  /\ probed' = (ProbeOk(2, kernel_abi, sys2) \/ ProbeOk(1, kernel_abi, sys1))
    /\ UNCHANGED <<envVars, config_version, selVars, availVars, enfVars, runVars>>

\* Run mode without a command: an error.
NoCommand ==
    /\ pc = "modes"
    /\ ~args.print_config
    /\ ~(args.print_ruleset \/ args.dry_run)
    /\ effective_cmd = <<>>
    /\ Fail
    /\ UNCHANGED <<envVars, config_version, selVars, availVars, enfVars, runVars, probed, printed>>

\* Availability with lines 194-196 (the require check) left out.
AvailabilityNoRequire ==
    /\ pc = "modes"
    /\ ~args.print_config
    /\ ~(args.print_ruleset \/ args.dry_run)
    /\ effective_cmd # <<>>
    /\ \E osrelease \in OsReleases, lsm \in BOOLEAN :
          LET available == perform_landlock_check(osrelease, lsm) IN
          /\ ll_checked' = TRUE
          /\ ll_available' = available
          /\ warned' = ~available
          /\ pc' = IF available THEN "setup" ELSE "run"
          /\ UNCHANGED <<outcome, exit_code>>
    /\ UNCHANGED <<envVars, config_version, selVars, enfVars, runVars, probed, printed>>

\* Availability with the guard of line 202 (if ll_available) left out.
AvailabilityAlwaysSetup ==
    /\ pc = "modes"
    /\ ~args.print_config
    /\ ~(args.print_ruleset \/ args.dry_run)
    /\ effective_cmd # <<>>
    /\ \E osrelease \in OsReleases, lsm \in BOOLEAN :
          LET available == perform_landlock_check(osrelease, lsm) IN
          /\ ll_checked' = TRUE
          /\ ll_available' = available
          /\ IF args.require_landlock /\ ~available
             THEN Fail /\ warned' = FALSE
             ELSE /\ warned' = ~available
                  /\ pc' = "setup"
                  /\ UNCHANGED <<outcome, exit_code>>
    /\ UNCHANGED <<envVars, config_version, selVars, enfVars, runVars, probed, printed>>

\* Availability with --dry-run forgotten in the test of line 174: a dry run
\* falls through to enforcement.
AvailabilityIgnoresDryRun ==
    /\ pc = "modes"
    /\ ~args.print_config
    /\ ~args.print_ruleset
    /\ effective_cmd # <<>>
    /\ \E osrelease \in OsReleases, lsm \in BOOLEAN :
          LET available == perform_landlock_check(osrelease, lsm) IN
          /\ ll_checked' = TRUE
          /\ ll_available' = available
          /\ IF args.require_landlock /\ ~available
             THEN Fail /\ warned' = FALSE
             ELSE /\ warned' = ~available
                  /\ pc' = IF available THEN "setup" ELSE "run"
                  /\ UNCHANGED <<outcome, exit_code>>
    /\ UNCHANGED <<envVars, config_version, selVars, enfVars, runVars, probed, printed>>

\* Landlock availability and the require flag.
Availability ==
    /\ pc = "modes"
    /\ ~args.print_config
    /\ ~(args.print_ruleset \/ args.dry_run)
    /\ effective_cmd # <<>>
    /\ \E osrelease \in OsReleases, lsm \in BOOLEAN :
          LET available == perform_landlock_check(osrelease, lsm) IN
          /\ ll_checked' = TRUE
          /\ ll_available' = available
          /\ IF args.require_landlock /\ ~available
             THEN Fail /\ warned' = FALSE
             ELSE /\ warned' = ~available
                  /\ pc' = IF available THEN "setup" ELSE "run"
                  /\ UNCHANGED <<outcome, exit_code>>
    /\ UNCHANGED <<envVars, config_version, selVars, enfVars, runVars, probed, printed>>

(***************************************************************************)
(* setup_landlock_profile                                                  *)
(***************************************************************************)
Call(op, ok) == [op |-> op, ok |-> ok]

\* handle_access(handled)?.create()? : create is only called when
\* handle_access returned Ok.
CreateCalls(ha, created) ==
    <<Call("handle_access", ha.ok)>>
    \o (IF ha.ok THEN <<Call("create", created.ok)>> ELSE <<>>)

\* Lines 374-386: compile the handled mask and create the ruleset.
ProfileCreate ==
    /\ pc = "setup"
    /\ selected_profile # <<>>
    /\ \E sys_ok \in BOOLEAN :
          LET hd == SetupHandled(selected_profile[1])
              ha == HandleAccess(hd, kernel_abi)
              created == Create(ha, sys_ok)
          IN /\ handled' = hd
             /\ calls' = calls \o CreateCalls(ha, created)
             /\ IF created.ok
                THEN /\ ruleset' = created.ruleset
                     /\ group_idx' = 1
                     /\ pc' = "add_rules"
                     /\ UNCHANGED <<outcome, exit_code>>
                ELSE Fail /\ UNCHANGED <<ruleset, group_idx>>
    /\ UNCHANGED <<envVars, config_version, selVars, availVars, runVars, probed, printed>>

\* Lines 388-395, one iteration: normalize the group's paths, add its rules.
ProfileAddRules ==
    /\ pc = "add_rules"
    /\ selected_profile # <<>>
    /\ group_idx <= Len(selected_profile[1].access_roots)
    /\ \E sys_ok \in BOOLEAN :
          LET group == selected_profile[1].access_roots[group_idx]
              allowed == access_from_permissions(group.permissions)
              norm == NormalizePaths(group.paths, home_set)
              added == AddRules(ruleset, path_beneath_rules(norm.paths, allowed),
                                kernel_abi, sys_ok)
          IN IF ~norm.ok
             THEN Fail /\ UNCHANGED <<ruleset, group_idx, calls>>
             ELSE /\ calls' = Append(calls, Call("add_rules", added.ok))
                  /\ IF added.ok
                     THEN /\ ruleset' = [added.ruleset EXCEPT !.state = "RulesLoaded"]
                          /\ group_idx' = group_idx + 1
                          /\ UNCHANGED <<pc, outcome, exit_code>>
                     ELSE Fail /\ UNCHANGED <<ruleset, group_idx>>
    /\ UNCHANGED <<envVars, config_version, selVars, availVars, handled, runVars, probed, printed>>

\* ProfileRestrict with the ? of line 396 left out: a failed restrict_self
\* is ignored and the command runs.
ProfileRestrictIgnoreError ==
    /\ pc = "add_rules"
    /\ selected_profile # <<>>
    /\ group_idx > Len(selected_profile[1].access_roots)
    /\ \E sys_ok \in BOOLEAN :
          LET r == RestrictSelf(ruleset, sys_ok)
          IN /\ calls' = Append(calls, Call("restrict_self", r.ok))
             /\ ruleset' = r.ruleset
             /\ pc' = "run"
             /\ UNCHANGED <<outcome, exit_code>>
    /\ UNCHANGED <<envVars, config_version, selVars, availVars, handled, group_idx, runVars, probed, printed>>

\* Lines 396-399: the one-shot self-restriction.
ProfileRestrict ==
    /\ pc = "add_rules"
    /\ selected_profile # <<>>
    /\ group_idx > Len(selected_profile[1].access_roots)
    /\ \E sys_ok \in BOOLEAN :
          LET r == RestrictSelf(ruleset, sys_ok)
          IN /\ calls' = Append(calls, Call("restrict_self", r.ok))
             /\ ruleset' = r.ruleset
             /\ IF r.ok
                THEN pc' = "run" /\ UNCHANGED <<outcome, exit_code>>
                ELSE Fail
    /\ UNCHANGED <<envVars, config_version, selVars, availVars, handled, group_idx, runVars, probed, printed>>

(***************************************************************************)
(* setup_landlock_root                                                     *)
(***************************************************************************)
\* let _abi = ABI::V1;
RootABI == 1

\* The allowed set of root mode, which is also its handled set.
RootAllowed(read_only) ==
    IF read_only
    THEN FromRead(RootABI) \cup {"Execute"}
    ELSE FromAll(RootABI)

\* main lines 206-209 and setup_landlock_root lines 350-365.
RootCreate ==
    /\ pc = "setup"
    /\ selected_profile = <<>>
    /\ \E sys_ok \in BOOLEAN :
          IF effective_root = None \/ ~normalize_path(effective_root, home_set).ok
          THEN Fail /\ UNCHANGED enfVars
          ELSE LET hd == RootAllowed(effective_read_only)
                   ha == HandleAccess(hd, kernel_abi)
                   created == Create(ha, sys_ok)
               IN /\ handled' = hd
                  /\ calls' = calls \o CreateCalls(ha, created)
                  /\ IF created.ok
                     THEN /\ ruleset' = created.ruleset
                          /\ group_idx' = 1
                          /\ pc' = "add_rules"
                          /\ UNCHANGED <<outcome, exit_code>>
                     ELSE Fail /\ UNCHANGED <<ruleset, group_idx>>
    /\ UNCHANGED <<envVars, config_version, selVars, availVars, runVars, probed, printed>>

\* Line 367: the one rule of root mode.
RootAddRules ==
    /\ pc = "add_rules"
    /\ selected_profile = <<>>
    /\ group_idx = 1
    /\ \E sys_ok \in BOOLEAN :
          LET paths == <<normalize_path(effective_root, home_set).path>>
              allowed == RootAllowed(effective_read_only)
              added == AddRules(ruleset, path_beneath_rules(paths, allowed),
                                kernel_abi, sys_ok)
          IN /\ calls' = Append(calls, Call("add_rules", added.ok))
             /\ IF added.ok
                THEN /\ ruleset' = [added.ruleset EXCEPT !.state = "RulesLoaded"]
                     /\ group_idx' = group_idx + 1
                     /\ UNCHANGED <<pc, outcome, exit_code>>
                ELSE Fail /\ UNCHANGED <<ruleset, group_idx>>
    /\ UNCHANGED <<envVars, config_version, selVars, availVars, handled, runVars, probed, printed>>

\* RootRestrict placed before the add_rules of line 367: the process is
\* restricted while the rule is still to be added.
RootRestrictBeforeRules ==
    /\ pc = "add_rules"
    /\ selected_profile = <<>>
    /\ group_idx >= 1
    /\ \E sys_ok \in BOOLEAN :
          LET r == RestrictSelf(ruleset, sys_ok)
          IN /\ calls' = Append(calls, Call("restrict_self", r.ok))
             /\ ruleset' = r.ruleset
             /\ IF r.ok
                THEN pc' = "run" /\ UNCHANGED <<outcome, exit_code>>
                ELSE Fail
    /\ UNCHANGED <<envVars, config_version, selVars, availVars, handled, group_idx, runVars, probed, printed>>

\* Lines 368-370.
RootRestrict ==
    /\ pc = "add_rules"
    /\ selected_profile = <<>>
    /\ group_idx > 1
    /\ \E sys_ok \in BOOLEAN :
          LET r == RestrictSelf(ruleset, sys_ok)
          IN /\ calls' = Append(calls, Call("restrict_self", r.ok))
             /\ ruleset' = r.ruleset
             /\ IF r.ok
                THEN pc' = "run" /\ UNCHANGED <<outcome, exit_code>>
                ELSE Fail
    /\ UNCHANGED <<envVars, config_version, selVars, availVars, handled, group_idx, runVars, probed, printed>>

(***************************************************************************)
(* run_command                                                             *)
(***************************************************************************)
\* How a child can end: an exit code, or a signal.
ChildEnds ==
    {[kind |-> "exit", code |-> c] : c \in 0..MaxExitCode}
    \cup {[kind |-> "signal", code |-> -1]}

\* cmdp.status() returned an error: no child ran.
SpawnFailed == [kind |-> "spawn_failed", code |-> -1]

\* ExitMapping with the signal branch (lines 672-676) returning Ok(0).
ExitMappingSignalZero(end) == IF end.kind = "exit" THEN end.code ELSE 0

\* status.code() mapped to the exit status of main.
ExitMapping(end) == IF end.kind = "exit" THEN end.code ELSE 1

\* The working-directory check: absent, or normalizes to a directory.
WorkingDirOk(spec, home) ==
    \/ spec.working_dir = None
    \/ /\ normalize_path(spec.working_dir, home).ok
       /\ PathKind(normalize_path(spec.working_dir, home).path) = "dir"

\* The environment overlay: a home-relative value needs $HOME.
EnvOk(spec, home) ==
    \A i \in 1..Len(spec.env) :
        spec.env[i] \in HomeRelPaths => normalize_path(spec.env[i], home).ok

\* run_command and std::process::exit(code): check the working directory,
\* expand the environment, spawn, wait, map the status.
RunCommand ==
    /\ pc = "run"
    /\ \E spawn_ok \in BOOLEAN, end \in ChildEnds :
          LET has_spec == selected_profile # <<>>
              wd_ok == ~has_spec \/ WorkingDirOk(selected_profile[1].command, home_set)
              env_ok == ~has_spec \/ EnvOk(selected_profile[1].command, home_set)
          IN /\ wd_checked' = wd_ok
             /\ IF wd_ok /\ env_ok /\ spawn_ok
                THEN /\ spawned' = TRUE
                     /\ child' = end
                     /\ pc' = "done"
                     /\ outcome' = "exit"
                     /\ exit_code' = ExitMapping(end)
                ELSE /\ Fail
                     /\ UNCHANGED spawned
                     /\ child' = IF wd_ok /\ env_ok THEN SpawnFailed ELSE child
    /\ UNCHANGED <<envVars, config_version, selVars, availVars, enfVars, probed, printed>>

(***************************************************************************)
(* The specification of one run of main.                                   *)
(***************************************************************************)
Next ==
    \/ GenerateProfile
    \/ Check
    \/ LoadConfig
    \/ NoConfig
    \/ PrintConfig
    \/ PrintRuleset
    \/ NoCommand
    \/ Availability
    \/ ProfileCreate
    \/ ProfileAddRules
    \/ ProfileRestrict
    \/ RootCreate
    \/ RootAddRules
    \/ RootRestrict
    \/ RunCommand

Spec == Init /\ [][Next]_vars

(***************************************************************************)
(* Profile compilation on its own: main after LoadConfig has selected a    *)
(* profile, for every profile of up to MaxGroups groups over PermChoices.  *)
(***************************************************************************)
GroupName(i) ==
    CASE i = 1 -> "projects"
      [] i = 2 -> "system"
      [] i = 3 -> "cache"
      [] OTHER -> "extra"

\* Groups 1..n, each with one path and its own permissions.
GenGroups ==
    UNION { { [i \in 1..n |-> Group(GroupName(i), <<"/usr">>, f[i])] :
                f \in [1..n -> PermChoices] } : n \in 0..MaxGroups }

GenProfiles ==
    { MkProfile(gs, c, Cmd(None, <<>>)) : gs \in GenGroups, c \in PermChoices }

\* The command lines of the compilation runs: print the ruleset, or run.
CompileArgs ==
    { [generate_profile |-> FALSE, check |-> FALSE, print_config |-> FALSE,
       print_ruleset |-> pr, dry_run |-> FALSE, require_landlock |-> FALSE,
       read_only |-> FALSE, config |-> TRUE, profile |-> "minimal", root |-> None,
       command |-> <<>>] : pr \in BOOLEAN }

\* main at line 148, LoadConfig done.
InitCompile ==
    /\ args \in CompileArgs
    /\ kernel_abi \in 0..MaxKernelABI
    /\ home_set = TRUE
    /\ config_version = <<<<1>>>>
    /\ pc = "modes"
    /\ \E p \in GenProfiles :
          /\ selected_profile = <<p>>
          /\ effective_cmd = EffectiveCmd(p, args)
          /\ effective_root = EffectiveRoot(p, args, home_set)
          /\ effective_read_only = EffectiveReadOnly(p, args)
    /\ ll_checked = FALSE
    /\ ll_available = FALSE
    /\ warned = FALSE
    /\ handled = {}
    /\ ruleset = NoRuleset
    /\ group_idx = 0
    /\ calls = <<>>
    /\ probed = FALSE
    /\ printed = <<>>
    /\ wd_checked = FALSE
    /\ spawned = FALSE
    /\ child = NoChild
    /\ outcome = "running"
    /\ exit_code = -1

NextCompile ==
    \/ PrintRuleset
    \/ Availability
    \/ ProfileCreate
    \/ ProfileAddRules
    \/ ProfileRestrict
    \/ RunCommand

SpecCompile == InitCompile /\ [][NextCompile]_vars

(***************************************************************************)
(* Properties                                                              *)
(***************************************************************************)
AllCallsOk == \A i \in 1..Len(calls) : calls[i].ok
SomeCallFailed == \E i \in 1..Len(calls) : ~calls[i].ok
Called(op) == \E i \in 1..Len(calls) : calls[i].op = op
CountCalls(op) == Cardinality({i \in 1..Len(calls) : calls[i].op = op})

\* The number of add_rules calls a complete load makes.
ExpectedLoads ==
    IF selected_profile # <<>> THEN Len(selected_profile[1].access_roots) ELSE 1

\* create, every add_rules and restrict_self were called and returned Ok.
EnforcementSucceeded ==
    /\ AllCallsOk
    /\ Called("create")
    /\ CountCalls("add_rules") = ExpectedLoads
    /\ calls # <<>> /\ calls[Len(calls)].op = "restrict_self"
    /\ ruleset.state = "Restricted"

\* Enforcement was never attempted: Landlock judged unavailable, not required.
EnforcementBypassed ==
    /\ calls = <<>>
    /\ ruleset = NoRuleset
    /\ ll_checked /\ ~ll_available /\ ~args.require_landlock

\* C1: the target command is spawned only after create, every add_rules and
\* restrict_self have succeeded, or when enforcement was never attempted
\* because Landlock was judged unavailable and is not required; a failed
\* handle_access, create, add_rules or restrict_self ends the run with an
\* error and without a spawn.
C1_SpawnOnlyEnforcedOrBypassed ==
    /\ spawned => (EnforcementSucceeded \/ EnforcementBypassed)
    /\ SomeCallFailed => (pc = "done" /\ outcome = "error" /\ exit_code # 0 /\ ~spawned)

\* C1 witness: a command spawned under a real ruleset with a loaded rule.
C1_Witness ==
    /\ spawned
    /\ ruleset.state = "Restricted" /\ ruleset.real /\ Len(ruleset.rules) > 0
    /\ Len(calls) >= 4

\* The configured paths of the run: every path of every group, or the root.
ConfiguredPaths ==
    IF selected_profile # <<>>
    THEN UNION {Range(g.paths) : g \in Range(selected_profile[1].access_roots)}
    ELSE {effective_root}

\* C2 (as claimed): after a successful restrict every configured path was
\* resolved and opened and has a loaded rule; a path that cannot be opened
\* never gets past rule loading.
C2_PathErrorIsFatal ==
    (ruleset.state = "Restricted" /\ ruleset.real) =>
        \A p \in ConfiguredPaths :
            /\ normalize_path(p, home_set).ok
            /\ PathKind(normalize_path(p, home_set).path) # "missing"
            /\ \E i \in 1..Len(ruleset.rules) :
                   ruleset.rules[i].path = normalize_path(p, home_set).path

\* C3 (as claimed): in profile mode the handled mask the ruleset is created
\* with lies within the supported set supported_access negotiates, whatever
\* its probes return.
C3_HandledWithinSupported ==
    (selected_profile # <<>> /\ ruleset.state # "Unrestricted") =>
        \A sys2 \in BOOLEAN, sys1 \in BOOLEAN :
            ruleset.actual \subseteq supported_access(kernel_abi, sys2, sys1)

\* --check reported success.
CheckReportedOk ==
    /\ ~args.generate_profile /\ args.check
    /\ pc = "done" /\ outcome = "ok"

\* C4 (as claimed): Landlock is declared available (by --check, or by main
\* before enforcing) only after a construction probe has succeeded, and a
\* failed release / LSM check does not make main skip enforcement on a
\* kernel where a ruleset can be built.
C4_ProbeIsAuthoritative ==
    /\ CheckReportedOk => probed
    /\ (ll_checked /\ ll_available) => probed
    /\ (ll_checked /\ ~ll_available) => kernel_abi = 0

\* C5 (as claimed): create and restrict_self are called only after the
\* working-directory check of the selected profile's command has passed.
C5_WorkingDirCheckedFirst ==
    (selected_profile # <<>> /\ (Called("create") \/ Called("restrict_self"))) => wd_checked

\* C6: with require_landlock set and Landlock judged unavailable, main ends
\* with an error and a non-zero exit status, no ruleset was created and the
\* command was not spawned.
C6_RequiredUnavailableFails ==
    (ll_checked /\ args.require_landlock /\ ~ll_available) =>
        /\ pc = "done" /\ outcome = "error" /\ exit_code # 0
        /\ calls = <<>> /\ ruleset = NoRuleset
        /\ ~spawned

\* C6 witness: the require flag met an unavailable Landlock.
C6_Witness ==
    /\ ll_checked /\ args.require_landlock /\ ~ll_available
    /\ pc = "done"

\* run_command's own checks pass for this run.
LauncherChecksOk ==
    \/ selected_profile = <<>>
    \/ /\ WorkingDirOk(selected_profile[1].command, home_set)
       /\ EnvOk(selected_profile[1].command, home_set)

\* Enforcement is optional and Landlock was judged unavailable.
OptionalUnavailable == ll_checked /\ ~args.require_landlock /\ ~ll_available

\* C7 (as claimed): optional and unavailable: no Enforcer call, a warning,
\* and the command is spawned (granted that the spawn call itself works).
C7_BypassedAlwaysSpawns ==
    (OptionalUnavailable /\ pc = "done" /\ child # SpawnFailed) =>
        (calls = <<>> /\ warned /\ spawned)

\* C7 (amended): optional and unavailable: no Enforcer call is ever made, the
\* warning is emitted and main goes on to run_command; the command is spawned
\* without a sandbox exactly when run_command's working-directory check and
\* environment expansion pass and the spawn succeeds.
C7_BypassedRunsLauncher ==
    OptionalUnavailable =>
        /\ calls = <<>> /\ ruleset = NoRuleset /\ handled = {}
        /\ warned
        /\ pc \in {"run", "done"}
        /\ pc = "done" => (spawned <=> (LauncherChecksOk /\ child # SpawnFailed))
        /\ pc = "done" /\ ~spawned => outcome = "error"

\* C7 witness: a command spawned unsandboxed after the warning.
C7_Witness ==
    /\ OptionalUnavailable /\ warned
    /\ spawned /\ ruleset = NoRuleset

\* The configuration field that names each capability.
CapField(c) ==
    CASE c = "ReadFile" -> "read_file"
      [] c = "ReadDir" -> "read_dir"
      [] c = "Execute" -> "execute"
      [] c = "WriteFile" -> "write_file"
      [] c = "RemoveFile" -> "remove_file"
      [] c = "RemoveDir" -> "remove_dir"
      [] c = "Truncate" -> "truncate"

\* Capability c is requested by the ControlAccess or by some group.
RequestedBy(profile, c) ==
    \/ profile.control_access[CapField(c)] = "true"
    \/ \E i \in 1..Len(profile.access_roots) :
           profile.access_roots[i].permissions[CapField(c)] = "true"

\* Scenario A: one group with {read_file, read_dir}, ControlAccess empty.
ScenarioA ==
    MkProfile(<<Group("projects", <<"/usr">>, ReadOnlyPerm)>>, NoPerm, Cmd(None, <<>>))

\* C8: in profile mode the handled mask (the one given to handle_access and
\* the one printed) holds a capability exactly when the ControlAccess or
\* some group requests it, and nothing outside the seven capabilities;
\* Scenario A gives {ReadFile, ReadDir}.
C8_HandledIsUnion ==
    selected_profile # <<>> =>
        /\ Called("handle_access") =>
              /\ handled \subseteq SevenCaps
              /\ \A c \in SevenCaps : c \in handled <=> RequestedBy(selected_profile[1], c)
        /\ printed # <<>> =>
              /\ Range(printed[1].handled) \subseteq SevenCaps
              /\ \A c \in SevenCaps :
                    c \in Range(printed[1].handled) <=> RequestedBy(selected_profile[1], c)
        /\ (selected_profile[1] = ScenarioA /\ Called("handle_access")) =>
              handled = {"ReadFile", "ReadDir"}

\* C8 witness: Scenario A compiled for enforcement.
C8_Witness ==
    /\ selected_profile # <<>>
    /\ selected_profile[1] = ScenarioA
    /\ Called("create")
    /\ handled = {"ReadFile", "ReadDir"}

\* C9 (as claimed): the set setup_landlock_root enforces for its one rule is
\* {ReadFile, ReadDir, Execute} when read-only and the seven capabilities
\* otherwise, the same as print_ruleset_root prints.
C9_RootAllowedSet ==
    /\ (selected_profile = <<>> /\ ruleset.state # "Unrestricted") =>
          handled = (IF effective_read_only
                     THEN {"ReadFile", "ReadDir", "Execute"} ELSE SevenCaps)
    /\ (selected_profile = <<>> /\ printed # <<>>) =>
          /\ Len(printed[1].groups) = 1
          /\ Range(printed[1].groups[1].allowed) =
                (IF effective_read_only
                 THEN {"ReadFile", "ReadDir", "Execute"} ELSE SevenCaps)

\* The profile has no group and requests nothing.
EmptyProfile ==
    /\ selected_profile # <<>>
    /\ selected_profile[1].access_roots = <<>>
    /\ \A c \in SevenCaps : ~RequestedBy(selected_profile[1], c)

\* C10 (as claimed): for a profile with no group and nothing requested the
\* handled mask is empty, no Enforcer call fails, and enforcement ends
\* Restricted with zero rules.
C10_EmptyProfileEnforces ==
    EmptyProfile =>
        /\ Called("handle_access") => (handled = {} /\ calls[1].ok)
        /\ printed # <<>> => (printed[1].handled = <<>> /\ printed[1].groups = <<>>)

\* The (group, path) occurrences of a profile in loading order, each with
\* its normalized path and its own group's Permissions-derived set.
RECURSIVE Occurrences(_, _)
Occurrences(groups, home) ==
    IF groups = <<>> THEN <<>>
    ELSE LET g == Head(groups)
             norm == NormalizePaths(g.paths, home).paths
         IN [i \in 1..Len(norm) |->
                [path |-> norm[i], access |-> access_from_permissions(g.permissions)]]
            \o Occurrences(Tail(groups), home)

\* Every configured path of the run opens (as a directory or a file).
AllPathsOpen ==
    \A p \in ConfiguredPaths : PathKind(normalize_path(p, home_set).path) # "missing"

\* The loaded rules are the occurrences, one to one and in order; on a
\* directory the rule carries its group's set (as far as the kernel's ABI
\* represents it).
RulesAreOccurrences ==
    LET occ == Occurrences(selected_profile[1].access_roots, home_set)
    IN /\ Len(ruleset.rules) = Len(occ)
       /\ \A k \in 1..Len(occ) :
             /\ ruleset.rules[k].path = occ[k].path
             /\ PathKind(occ[k].path) = "dir" =>
                   ruleset.rules[k].access = occ[k].access \cap FromAll(kernel_abi)

\* C11 (as claimed): once a profile's rules are loaded and enforced there is
\* exactly one rule per (group, path) occurrence, bound to its own group's
\* set; the same path in two groups gives two rules, not one merged rule.
C11_OneRulePerOccurrence ==
    (selected_profile # <<>> /\ ruleset.state = "Restricted" /\ ruleset.real) =>
        RulesAreOccurrences

\* C11, on the runs where every configured path opens: holds, so the only
\* departure is the omission of paths that cannot be opened.
C11_WhenAllPathsOpen ==
    (selected_profile # <<>> /\ ruleset.state = "Restricted" /\ ruleset.real
     /\ AllPathsOpen) =>
        RulesAreOccurrences

\* One path in two groups with different sets, both rules loaded.
C11_DuplicateLoaded ==
    /\ selected_profile # <<>> /\ ruleset.state = "Restricted"
    /\ \E i \in 1..Len(ruleset.rules), j \in 1..Len(ruleset.rules) :
          /\ i # j
          /\ ruleset.rules[i].path = ruleset.rules[j].path
          /\ ruleset.rules[i].access # ruleset.rules[j].access

\* C12: when the child has run, main's exit status is the child's exit code
\* if it exited with one (0 and non-zero alike), and 1, never 0, if it was
\* killed by a signal; main ends by exit(code), not by returning.
C12_ExitStatusMapping ==
    (pc = "done" /\ spawned) =>
        /\ child.kind \in {"exit", "signal"}
        /\ outcome = "exit"
        /\ child.kind = "exit" => exit_code = child.code
        /\ child.kind = "signal" => (exit_code = 1 /\ exit_code # 0)

\* C12 witness: a child killed by a signal, reported as status 1.
C12_Witness ==
    /\ pc = "done" /\ spawned
    /\ child.kind = "signal"
    /\ exit_code = 1

\* A child that exited with a non-zero code, passed through unchanged.
C12_NonZeroPassed ==
    /\ pc = "done" /\ spawned
    /\ child.kind = "exit" /\ child.code > 0
    /\ exit_code = child.code

\* One of the modes that never enforce is selected.
NonEnforcingMode ==
    \/ args.generate_profile
    \/ args.check
    \/ args.print_config
    \/ args.print_ruleset
    \/ args.dry_run

\* print-ruleset / dry-run is the mode main acts on.
PrintRulesetMode ==
    /\ ~args.generate_profile /\ ~args.check /\ ~args.print_config
    /\ args.print_ruleset \/ args.dry_run

\* Every path of the selected profile normalizes.
ProfilePathsResolve ==
    \A i \in 1..Len(selected_profile[1].access_roots) :
        NormalizePaths(selected_profile[1].access_roots[i].paths, home_set).ok

\* C13: with generate-profile, check, print-config, print-ruleset or dry-run
\* set, whatever the other arguments, main never reaches the availability
\* check, makes no Enforcer call (so no restrict_self) and never spawns the
\* command; and print-ruleset / dry-run on a selected profile whose paths
\* resolve returns Ok having printed the profile-mode ruleset, one entry per
\* group.
C13_PrintModesNeverEnforce ==
    /\ NonEnforcingMode =>
          /\ ~Called("restrict_self") /\ calls = <<>> /\ ruleset = NoRuleset
          /\ ~spawned /\ child = NoChild
          /\ ~ll_checked
          /\ pc \in {"start", "modes", "done"}
    /\ (PrintRulesetMode /\ selected_profile # <<>> /\ ProfilePathsResolve /\ pc = "done") =>
          /\ outcome = "ok" /\ exit_code = 0
          /\ printed # <<>>
          /\ printed[1].mode = "profile"
          /\ Len(printed[1].groups) = Len(selected_profile[1].access_roots)
          /\ \A i \in 1..Len(printed[1].groups) :
                printed[1].groups[i].name = selected_profile[1].access_roots[i].name

\* C13 witness: a dry run with a command and a profile with a group given,
\* ended after printing.
C13_Witness ==
    /\ args.dry_run /\ ~args.print_ruleset /\ args.command # <<>>
    /\ selected_profile # <<>> /\ Len(selected_profile[1].access_roots) > 0
    /\ pc = "done" /\ outcome = "ok"
    /\ printed # <<>>

\* load_config has decoded a document.
ConfigDecoded == config_version # <<>>

\* Nothing was selected, printed, enforced or run, and main returned an error.
RejectedBeforeSelection ==
    /\ pc = "done" /\ outcome = "error"
    /\ selected_profile = <<>>
    /\ ~ll_checked /\ calls = <<>> /\ ruleset = NoRuleset
    /\ ~spawned /\ printed = <<>>

\* C14 as stated: every decoded document whose version is not the integer 1 (an
\* absent version included) is rejected before a profile is selected or
\* enforcement is attempted.
C14_OnlyVersionOne ==
    (ConfigDecoded /\ config_version[1] # <<1>>) => RejectedBeforeSelection

\* C14 amended: every decoded document whose version is present and not 1 is
\* rejected before a profile is selected or enforcement is attempted; a profile
\* is selected only from a document whose version is 1 or absent.
C14_PresentVersionMustBeOne ==
    /\ (ConfigDecoded /\ config_version[1] # <<>> /\ config_version[1][1] # 1) =>
          RejectedBeforeSelection
    /\ (ConfigDecoded /\ selected_profile # <<>>) => config_version[1] \in {<<>>, <<1>>}

\* C14 witness: a document of version 2 was decoded and rejected.
C14_Witness ==
    /\ ConfigDecoded /\ config_version[1] = <<2>>
    /\ pc = "done" /\ outcome = "error" /\ selected_profile = <<>>

\* C14: a document without a version was accepted and its profile enforced.
C14_AbsentVersionEnforced ==
    /\ ConfigDecoded /\ config_version[1] = <<>>
    /\ selected_profile # <<>>
    /\ Called("restrict_self")

\* The position of an Enforcer state in the linear order.
EnforcerRank(state) ==
    CASE state = "Unrestricted" -> 0
      [] state = "RulesetCreated" -> 1
      [] state = "RulesLoaded" -> 2
      [] state = "Restricted" -> 3

\* The calls made so far, read as a history: handle_access, create, then
\* add_rules only, each after the success of everything before it; a
\* restrict_self is the last call and follows one successful add_rules per
\* group (one in root mode).
CallsInOrder ==
    \A i \in 1..Len(calls) :
        /\ (i > 1 => calls[i - 1].ok)
        /\ (calls[i].op = "handle_access" <=> i = 1)
        /\ (calls[i].op = "create" <=> i = 2)
        /\ (calls[i].op = "add_rules" => i > 2 /\ i <= 2 + ExpectedLoads)
        /\ (calls[i].op = "restrict_self" => i = 3 + ExpectedLoads /\ i = Len(calls))

\* The Enforcer state is the one the successful calls have led to.
StateFollowsCalls ==
    LET okCalls == {calls[i].op : i \in {k \in 1..Len(calls) : calls[k].ok}} IN
    /\ ruleset.state = "Unrestricted" <=> "create" \notin okCalls
    /\ ruleset.state = "RulesetCreated" <=>
          ("create" \in okCalls /\ okCalls \cap {"add_rules", "restrict_self"} = {})
    /\ ruleset.state = "RulesLoaded" <=>
          ("add_rules" \in okCalls /\ "restrict_self" \notin okCalls)
    /\ ruleset.state = "Restricted" <=> "restrict_self" \in okCalls

\* C15: the Enforcer state never moves backward; add_rules is called only
\* after a successful create; restrict_self is called only after a successful
\* add_rules for every group (the one rule in root mode), at most once in a
\* run whichever of the profile path and the root path is taken, and it is the
\* last Enforcer call of the run.
C15_EnforcerLinear ==
    /\ [](CallsInOrder /\ StateFollowsCalls
          /\ CountCalls("create") <= 1 /\ CountCalls("restrict_self") <= 1)
    /\ [][/\ EnforcerRank(ruleset'.state) >= EnforcerRank(ruleset.state)
          /\ ruleset.state = "Restricted" => (calls' = calls /\ ruleset' = ruleset)]_vars

\* C15 witness: a profile with two groups went through create, two add_rules
\* and restrict_self.
C15_Witness ==
    /\ selected_profile # <<>> /\ Len(selected_profile[1].access_roots) = 2
    /\ Len(calls) = 5 /\ calls[5] = Call("restrict_self", TRUE)
    /\ ruleset.state = "Restricted"

\* C15: the root path restricted after its one rule.
C15_RootRestricted ==
    /\ selected_profile = <<>>
    /\ Len(calls) = 4 /\ calls[4] = Call("restrict_self", TRUE)
    /\ ruleset.state = "Restricted"

(***************************************************************************)
(* The mapping runs: print-ruleset over every Permissions / ControlAccess  *)
(* record.                                                                 *)
(***************************************************************************)
\* Every record of seven Option<bool> fields.
AllRecords == [Fields -> OptBool]

\* A profile with one group of permissions r and the same record as its
\* ControlAccess, the group alone, and the ControlAccess alone.
MappingProfiles ==
    { MkProfile(<<Group("projects", <<"/usr">>, r)>>, r, Cmd(None, <<>>)) : r \in AllRecords }
    \cup { MkProfile(<<Group("projects", <<"/usr">>, r)>>, NoPerm, Cmd(None, <<>>)) :
              r \in AllRecords }
    \cup { MkProfile(<<>>, r, Cmd(None, <<>>)) : r \in AllRecords }

MappingArgs == {a \in CompileArgs : a.print_ruleset}

\* main at line 148, LoadConfig done, --print-ruleset given.
InitMapping ==
    /\ args \in MappingArgs
    /\ kernel_abi \in 0..MaxKernelABI
    /\ home_set = TRUE
    /\ config_version = <<<<1>>>>
    /\ pc = "modes"
    /\ \E p \in MappingProfiles :
          /\ selected_profile = <<p>>
          /\ effective_cmd = EffectiveCmd(p, args)
          /\ effective_root = EffectiveRoot(p, args, home_set)
          /\ effective_read_only = EffectiveReadOnly(p, args)
    /\ ll_checked = FALSE
    /\ ll_available = FALSE
    /\ warned = FALSE
    /\ handled = {}
    /\ ruleset = NoRuleset
    /\ group_idx = 0
    /\ calls = <<>>
    /\ probed = FALSE
    /\ printed = <<>>
    /\ wd_checked = FALSE
    /\ spawned = FALSE
    /\ child = NoChild
    /\ outcome = "running"
    /\ exit_code = -1

NextMapping == PrintRuleset

SpecMapping == InitMapping /\ [][NextMapping]_vars

\* The capabilities whose field in the record is Some(true).
TrueCaps(rec) == {c \in SevenCaps : rec[CapField(c)] = "true"}

\* Every field of the record is Some(false) or None.
NothingGranted(rec) == \A f \in Fields : rec[f] \in {"false", "absent"}

\* C16: for every Permissions record and every ControlAccess record,
\* access_from_permissions / access_from_control return exactly the
\* capabilities whose field is present and true (so the empty set when every
\* field is false or absent), the two agree on records with equal fields, and
\* the sets print-ruleset shows are these sets.
C16_FieldByField ==
    LET profile == selected_profile[1]
        ctrl == profile.control_access
        groups == profile.access_roots
    IN /\ access_from_control(ctrl) = TrueCaps(ctrl)
       /\ NothingGranted(ctrl) => access_from_control(ctrl) = {}
       /\ \A i \in 1..Len(groups) :
             LET perms == groups[i].permissions IN
             /\ access_from_permissions(perms) = TrueCaps(perms)
             /\ NothingGranted(perms) => access_from_permissions(perms) = {}
             /\ access_from_permissions(ctrl) = access_from_control(ctrl)
             /\ access_from_control(perms) = access_from_permissions(perms)
             /\ perms = ctrl => access_from_permissions(perms) = access_from_control(ctrl)
       /\ printed # <<>> =>
             /\ Range(printed[1].handled) =
                   TrueCaps(ctrl) \cup UNION {TrueCaps(g.permissions) : g \in Range(groups)}
             /\ \A i \in 1..Len(groups) :
                   Range(printed[1].groups[i].allowed) = TrueCaps(groups[i].permissions)

\* C16 witness: a record with fields true, false and absent, used as the
\* group's permissions and as the ControlAccess, was compiled and printed.
C16_Witness ==
    /\ Len(selected_profile[1].access_roots) = 1
    /\ selected_profile[1].access_roots[1].permissions = TruncPerm
    /\ selected_profile[1].control_access = TruncPerm
    /\ printed # <<>>
    /\ printed[1].groups[1].allowed = <<"ReadFile", "WriteFile", "Truncate">>
    /\ printed[1].handled = <<"ReadFile", "WriteFile", "Truncate">>

\* C16: a record with every field false compiled to the empty set.
C16_AllFalseEmpty ==
    /\ selected_profile[1].access_roots = <<>>
    /\ selected_profile[1].control_access = AllFalse
    /\ printed # <<>>
    /\ printed[1].handled = <<>>

\* What print-ruleset / dry-run shows for the inputs of this run.
PrintedFor ==
    LET sup == supported_access(kernel_abi, TRUE, TRUE)
    IN IF selected_profile # <<>>
       THEN print_ruleset_profile(selected_profile[1], home_set, sup).report
       ELSE print_ruleset_root(effective_root, effective_read_only, home_set, sup).report

\* The allowed set the setup function gives to path_beneath_rules for the
\* i-th add_rules call.
AllowedPassed(i) ==
    IF selected_profile # <<>>
    THEN access_from_permissions(selected_profile[1].access_roots[i].permissions)
    ELSE RootAllowed(effective_read_only)

\* The handled mask given to ruleset creation and the allowed sets given to
\* the add_rules calls made so far are the ones print-ruleset shows.
EnforcedAsPrinted ==
    /\ handled = Range(PrintedFor.handled)
    /\ \A i \in 1..(group_idx - 1) :
          AllowedPassed(i) = Range(PrintedFor.groups[i].allowed)

\* C17: for the same inputs, the handled set print-ruleset / dry-run shows
\* is the handled mask enforce-and-run passes to ruleset creation, and the
\* allowed set shown for each path is the allowed set bound to it, in profile
\* mode and in root mode, read-only and read-write.
C17_PrintIsEnforced ==
    Called("handle_access") => EnforcedAsPrinted

\* C17, the part that holds: profile mode and read-only root mode.
C17_ProfileAndReadOnlyAgree ==
    (Called("handle_access") /\ (selected_profile # <<>> \/ effective_read_only)) =>
        EnforcedAsPrinted

\* C17: a read-only root run restricted with what print-ruleset shows.
C17_ReadOnlyRootAgrees ==
    /\ selected_profile = <<>> /\ effective_read_only
    /\ ruleset.state = "Restricted" /\ group_idx = 2
    /\ EnforcedAsPrinted

====
